---- MODULE Spec2Model ----
(***************************************************************************)
(* A model of the jukebox server: the chunked sender of                    *)
(* ChunkedDataSender.cpp (ArraySender) and the epoll event loop of         *)
(* jukebox-server.cpp.  ChunkedDataSender.h and ConnectedClient.{h,cpp}    *)
(* are not among the sources; what the model needs of them (CHUNK_SIZE,    *)
(* the ConnectedClient object, handle_input, handle_close) is modelled     *)
(* from the design document and marked so where it is defined.             *)
(***************************************************************************)
EXTENDS Integers, Sequences, FiniteSets, TLC

VARIABLES
    running,     \* TRUE until the process calls exit(EXIT_FAILURE)
    CHUNK_SIZE,  \* the chunk limit of ChunkedDataSender.h, fixed at start
    clients,     \* map<int, ConnectedClient>: fd -> ConnectedClient
    interest,    \* the epoll interest list: fd -> set of event flags
    pc,          \* position in event_loop: "epoll_wait" or "for"
    events,      \* the events array filled by the last epoll_wait
    n,           \* the loop index into events
    pending,     \* connections waiting in the listening socket's queue
    handled,     \* the event the last turn of the for loop handled
    ops,         \* the calls made while handling that event, in order
    call,        \* the last send_next_chunk call: its inputs and its result
    hist,        \* per fd: what the calls on its sender did so far
    wire,        \* per fd: the bytes its transport accepted so far, in order
    source       \* the caller's buffer an ArraySender was constructed from

vars == <<running, CHUNK_SIZE, clients, interest, pc, events, n, pending,
          handled, ops, call, hist, wire, source>>

(***************************************************************************)
(* Bounds of the model.                                                    *)
(***************************************************************************)
MaxLen == 4        \* longest payload handed to an ArraySender
MaxChunk == 3      \* largest chunk limit tried for CHUNK_SIZE
MaxCalls == 6      \* send_next_chunk calls made on one sender
MaxClients == 2    \* client descriptors the kernel hands out
MaxBatch == 2      \* events one epoll_wait returns
MaxPending == 2    \* connections waiting to be accepted
MaxResp == 1       \* longest response payload handle_input starts to send

Bytes == {0, 1}

\* the byte arrays of at most k bytes
ArraysUpTo(k) == UNION {[1..i -> Bytes] : i \in 0..k}

Payloads == ArraysUpTo(MaxLen)

(***************************************************************************)
(* ChunkedDataSender.cpp                                                   *)
(***************************************************************************)

\* ArraySender::ArraySender: an own copy of the first `length` bytes, and a
\* cursor at 0.
ArraySender(array_to_send, length) ==
    [array        |-> SubSeq(array_to_send, 1, length),
     array_length |-> length,
     curr_loc     |-> 0]

\* std::min
min(a, b) == IF a < b THEN a ELSE b

num_bytes_remaining(s) == s.array_length - s.curr_loc

bytes_in_chunk_one_over(s, limit) == min(num_bytes_remaining(s), limit + 1)

bytes_in_chunk_off_by_one(s, limit) == min(num_bytes_remaining(s), limit - 1)

\* the size of the next chunk (mutants above: one byte over the limit, one
\* byte short of it)
bytes_in_chunk(s, limit) == min(num_bytes_remaining(s), limit)

array_of_caller(s) ==
    IF Len(source.bytes) = s.array_length THEN source.bytes ELSE s.array

\* the bytes the member `array` points to: the sender's own allocation,
\* filled by std::copy in the constructor (mutant above: the pointer to the
\* caller's buffer is kept, this->array = array_to_send)
array_of(s) == s.array

chunk_from_start(s, limit) == SubSeq(array_of(s), 1, bytes_in_chunk(s, limit))

\* memcpy(chunk, array+curr_loc, bytes_in_chunk) (mutant above: array
\* written for array+curr_loc)
chunk(s, limit) ==
    SubSeq(array_of(s), s.curr_loc + 1, s.curr_loc + bytes_in_chunk(s, limit))

\* What send() can answer when offered k > 0 bytes on a non-blocking stream
\* socket: it took 1..k of them, or it failed with errno set.
SendOutcomes(k) ==
    {[num_bytes_sent |-> i, errno |-> "none"] : i \in 1..k}
    \cup {[num_bytes_sent |-> -1, errno |-> e] : e \in {"EAGAIN", "ECONNRESET"}}

NoSend == [num_bytes_sent |-> 0, errno |-> "none"]

advance_assigned(s, limit, num_bytes_sent) == num_bytes_sent

advance_by_chunk(s, limit, num_bytes_sent) == s.curr_loc + bytes_in_chunk(s, limit)

\* curr_loc += num_bytes_sent (mutants above: = written for +=; the
\* attempted size is added)
advance(s, limit, num_bytes_sent) == s.curr_loc + num_bytes_sent

would_block_wrong_errno(out) == out.num_bytes_sent < 0 /\ out.errno = "EINTR"

\* num_bytes_sent < 0 && errno == EAGAIN (mutant above: the wrong errno)
would_block(out) == out.num_bytes_sent < 0 /\ out.errno = "EAGAIN"

chunk_not_empty_or_zero(k) == k >= 0

\* if (bytes_in_chunk > 0) (mutant above: >= written for >)
chunk_not_empty(k) == k > 0

\* ArraySender::send_next_chunk on sender s, the transport answering `out`
\* to the one send() it may make.  The result: the sender afterwards,
\* whether send() was called and with which bytes, whether the call
\* returned and what, or whether it ended the process instead.
send_next_chunk(s, limit, out) ==
    IF chunk_not_empty(bytes_in_chunk(s, limit))
    THEN IF out.num_bytes_sent > 0
         THEN [sender   |-> [s EXCEPT !.curr_loc = advance(s, limit, out.num_bytes_sent)],
               wrote    |-> TRUE,
               offered  |-> chunk(s, limit),
               returned |-> TRUE,
               ret      |-> out.num_bytes_sent]
         ELSE IF would_block(out)
         THEN [sender   |-> s,
               wrote    |-> TRUE,
               offered  |-> chunk(s, limit),
               returned |-> TRUE,
               ret      |-> -1]
         ELSE \* perror("send_next_chunk send"); exit(EXIT_FAILURE);
              [sender   |-> s,
               wrote    |-> TRUE,
               offered  |-> chunk(s, limit),
               returned |-> FALSE,
               ret      |-> 0]
    ELSE [sender   |-> s,
          wrote    |-> FALSE,
          offered  |-> <<>>,
          returned |-> TRUE,
          ret      |-> 0]

(***************************************************************************)
(* ConnectedClient (ConnectedClient.h is not among the sources): the       *)
(* descriptor, the mode, and the active sender if there is one.            *)
(***************************************************************************)
ConnectedClient(client_fd, state) ==
    [client_fd |-> client_fd, state |-> state, sender |-> <<>>]

\* begin_send of the design document: a sender over the payload, mode SENDING
begin_send(cc, payload) ==
    [cc EXCEPT !.state = "SENDING",
               !.sender = <<ArraySender(payload, Len(payload))>>]

NoEvent == [fd |-> -1, events |-> {}]

NoCall ==
    [made |-> FALSE, fd |-> 0, loc |-> 0, out |-> NoSend, wrote |-> FALSE,
     offered |-> <<>>, returned |-> TRUE, ret |-> 0]

\* no buffer followed: the specifications that construct no sender from one
NoSource == [given |-> <<>>, bytes |-> <<>>, seen |-> 0]

NoHist == [calls |-> 0, writes |-> 0, total |-> 0, allfull |-> TRUE]

(***************************************************************************)
(* The sender on its own: senders over every payload, send_next_chunk      *)
(* called on them again and again, the transport answering as it likes.    *)
(***************************************************************************)

\* what send() may answer to the next call on s: nothing is sent when the
\* chunk is empty
Answers(s) ==
    LET k == bytes_in_chunk(s, CHUNK_SIZE)
    IN IF k > 0 THEN SendOutcomes(k) ELSE {NoSend}

\* send_next_chunk(fd) runs on the sender of connection fd, send() answers out
Called(fd, out) ==
    LET s == clients[fd].sender[1]
        r == send_next_chunk(s, CHUNK_SIZE, out)
        taken == IF out.num_bytes_sent > 0
                 THEN SubSeq(r.offered, 1, out.num_bytes_sent)
                 ELSE <<>>
    IN /\ clients' = [clients EXCEPT ![fd].sender = <<r.sender>>]
       /\ running' = r.returned
       /\ call' = [made |-> TRUE, fd |-> fd, loc |-> s.curr_loc,
                   out |-> out, wrote |-> r.wrote,
                   offered |-> r.offered, returned |-> r.returned,
                   ret |-> r.ret]
       /\ wire' = [wire EXCEPT ![fd] = @ \o taken]

\* that call added to the account kept of fd's calls
Counted(fd, out) ==
    LET r == send_next_chunk(clients[fd].sender[1], CHUNK_SIZE, out)
    IN hist' = [hist EXCEPT ![fd] =
                  [calls   |-> @.calls + 1,
                   writes  |-> @.writes + (IF r.wrote THEN 1 ELSE 0),
                   total   |-> @.total + (IF r.returned /\ r.ret > 0
                                          THEN r.ret ELSE 0),
                   allfull |-> @.allfull /\
                               (r.wrote => out.num_bytes_sent = Len(r.offered))]]

\* one send_next_chunk(fd) call on the sender of connection fd
CallSendNextChunk(fd) ==
    /\ running
    /\ fd \in DOMAIN clients
    /\ clients[fd].sender # <<>>
    /\ hist[fd].calls < MaxCalls
    /\ \E out \in Answers(clients[fd].sender[1]) :
         Called(fd, out) /\ Counted(fd, out)
    /\ UNCHANGED <<source, CHUNK_SIZE, interest, pc, events, n, pending, handled, ops>>

\* the descriptor socket() gives setup_server_socket
server_socket == 3

TxFd == server_socket + 1

\* one connection, its sender fresh
InitTx ==
    /\ running = TRUE
    /\ CHUNK_SIZE \in 1..MaxChunk
    /\ \E p \in Payloads :
         /\ source = [given |-> p, bytes |-> p, seen |-> 0]
         /\ clients = (TxFd :> begin_send(ConnectedClient(TxFd, "RECEIVING"),
                                          source.bytes))
    /\ interest = (TxFd :> {"EPOLLIN", "EPOLLRDHUP", "EPOLLOUT"})
    /\ pc = "epoll_wait"
    /\ events = <<>>
    /\ n = 0
    /\ pending = 0
    /\ handled = NoEvent
    /\ ops = <<>>
    /\ call = NoCall
    /\ hist = (TxFd :> NoHist)
    /\ wire = (TxFd :> <<>>)

NextTx == \E fd \in DOMAIN clients : CallSendNextChunk(fd)

SpecTx == InitTx /\ [][NextTx]_vars

\* every byte of the buffer replaced by another one
Overwritten(a) == [i \in 1..Len(a) |-> 1 - a[i]]

\* the caller writes over the buffer it constructed the sender from, or
\* frees it and the allocator hands the memory to someone else
OverwriteSource ==
    /\ running
    /\ Len(source.bytes) >= 1
    /\ source' = [source EXCEPT !.bytes = Overwritten(@),
                                !.seen = hist[TxFd].writes]
    /\ UNCHANGED <<running, CHUNK_SIZE, clients, interest, pc, events, n,
                   pending, handled, ops, call, hist, wire>>

NextOwn == NextTx \/ OverwriteSource

\* the sender on its own, its caller doing what it likes with its buffer
SpecOwn == InitTx /\ [][NextOwn]_vars

\* a caller that calls send_next_chunk(fd) for ever, keeping no account but
\* whether its calls so far are odd or even in number (so that a call that
\* is refused is a step like any other)
CallAgain(fd) ==
    /\ running
    /\ fd \in DOMAIN clients
    /\ clients[fd].sender # <<>>
    /\ \E out \in Answers(clients[fd].sender[1]) : Called(fd, out)
    /\ hist' = [hist EXCEPT ![fd].calls = (@ + 1) % 2]
    /\ UNCHANGED <<source, CHUNK_SIZE, interest, pc, events, n, pending,
                   handled, ops>>

\* a call of which send() took at least one byte
Accepted(fd) == CallAgain(fd) /\ call'.out.num_bytes_sent > 0

NextLive == \E fd \in DOMAIN clients : CallAgain(fd)

\* the sender called for ever over a transport that does not refuse for
\* ever: again and again it takes at least one byte
SpecLive ==
    /\ InitTx
    /\ [][NextLive]_vars
    /\ WF_vars(CallAgain(TxFd))
    /\ SF_vars(Accepted(TxFd))

\* two connections, their senders fresh
MaxConnLen == 2

ConnFds == {server_socket + 1, server_socket + 2}

InitConns ==
    /\ running = TRUE
    /\ CHUNK_SIZE \in 1..MaxChunk
    /\ \E ps \in [ConnFds -> ArraysUpTo(MaxConnLen)] :
         clients = [fd \in ConnFds |->
                      begin_send(ConnectedClient(fd, "RECEIVING"), ps[fd])]
    /\ interest = [fd \in ConnFds |-> {"EPOLLIN", "EPOLLRDHUP", "EPOLLOUT"}]
    /\ pc = "epoll_wait"
    /\ events = <<>>
    /\ n = 0
    /\ pending = 0
    /\ handled = NoEvent
    /\ ops = <<>>
    /\ call = NoCall
    /\ hist = [fd \in ConnFds |-> NoHist]
    /\ wire = [fd \in ConnFds |-> <<>>]
    /\ source = NoSource

SpecConns == InitConns /\ [][NextTx]_vars

(***************************************************************************)
(* jukebox-server.cpp: the event loop.                                     *)
(***************************************************************************)
ClientFds == (server_socket + 1)..(server_socket + MaxClients)

Flags == {"EPOLLIN", "EPOLLOUT", "EPOLLRDHUP"}

\* the response payloads a parsed request may yield
Responses == {[i \in 1..k |-> 0] : k \in 0..MaxResp}

\* what one call of handle_input finds: no full request yet, or a request
\* and the payload that answers it
Requests == {[full |-> FALSE, payload |-> <<>>]}
            \cup {[full |-> TRUE, payload |-> p] : p \in Responses}

NoRequest == [full |-> FALSE, payload |-> <<>>]

\* what accept(), fcntl() and epoll_ctl() answer in setup_new_client: the
\* new descriptor or -1, and the call that fails if one does.  The
\* descriptor is whatever the kernel returns; the code itself allows for one
\* that is already mapped (line 254), and so does the model.
AcceptResults ==
    {[new_fd |-> -1, fails |-> "accept"]}
    \cup {[new_fd |-> fd, fails |-> f] :
            fd \in ClientFds, f \in {"none", "fcntl", "epoll_ctl"}}

NoAccept == [new_fd |-> -1, fails |-> "none"]

\* one entry of the log of calls: the call, the descriptor it is about, and
\* the mode and unsent bytes of that descriptor's client when it is made
Op(name, fd, cl) ==
    [op    |-> name,
     fd    |-> fd,
     client_fd |-> IF fd \in DOMAIN cl THEN cl[fd].client_fd ELSE fd,
     state |-> IF fd \in DOMAIN cl THEN cl[fd].state ELSE "none",
     left  |-> IF fd \in DOMAIN cl /\ cl[fd].sender # <<>>
               THEN num_bytes_remaining(cl[fd].sender[1]) ELSE 0]

\* a ConnectedClient made by the default constructor
DefaultClient == ConnectedClient(-1, "RECEIVING")

\* std::map::operator[]: the entry is made if it is not there
at(cl, fd) == IF fd \in DOMAIN cl THEN cl ELSE cl @@ (fd :> DefaultClient)

erase_forgotten(cl, fd) == cl

\* std::map::erase (mutant above: the entry is left in the map)
erase(cl, fd) == [f \in DOMAIN cl \ {fd} |-> cl[f]]

already_mapped_unchecked(cl, fd) == FALSE

\* clients.find(client_fd) != clients.end() (mutant above: no such check)
already_mapped(cl, fd) == fd \in DOMAIN cl

\* ConnectedClient::handle_close: the descriptor leaves the interest list and
\* is closed
handle_close(st, fd) ==
    [st EXCEPT !.interest = [f \in DOMAIN st.interest \ {st.clients[fd].client_fd}
                               |-> st.interest[f]],
               !.ops = Append(@, Op("handle_close", fd, st.clients))]

\* ConnectedClient::handle_input: the bytes that arrived are fed to the
\* request parser; a full request while RECEIVING starts the response
\* (begin_send) and asks for write-readiness as well
handle_input(st, fd, req) ==
    LET logged == [st EXCEPT !.ops = Append(@, Op("handle_input", fd, st.clients))]
    IN IF req.full /\ st.clients[fd].state = "RECEIVING"
       THEN [logged EXCEPT
               !.clients = [@ EXCEPT ![fd] = begin_send(@, req.payload)],
               !.interest = IF st.clients[fd].client_fd \in DOMAIN st.interest
                            THEN [@ EXCEPT ![st.clients[fd].client_fd] =
                                     @ \cup {"EPOLLOUT"}]
                            ELSE @]
       ELSE logged

exits(st, name, fd) ==
    [st EXCEPT !.running = FALSE, !.ops = Append(@, Op(name, fd, st.clients))]

accept_connection_drains(backlog) == 0

\* accept_connection: one accept() call takes one connection off the
\* listening socket's queue (mutant above: accepting until none is left)
accept_connection(backlog) == IF backlog > 0 THEN backlog - 1 ELSE 0

\* setup_new_client, the kernel answering its calls with acc
setup_new_client(st, acc) ==
    LET fd == acc.new_fd
        accepted == [st EXCEPT !.pending = accept_connection(@),
                               !.ops = Append(@, Op("accept", fd, st.clients))]
    IN IF acc.fails = "accept" THEN exits(st, "accept", fd)
       ELSE IF already_mapped(st.clients, fd) THEN exits(accepted, "exit", fd)
       ELSE IF acc.fails = "fcntl" THEN exits(accepted, "set_non_blocking", fd)
       ELSE IF acc.fails = "epoll_ctl"
            THEN exits([accepted EXCEPT
                          !.ops = Append(@, Op("set_non_blocking", fd, st.clients))],
                       "epoll_ctl", fd)
       ELSE [accepted EXCEPT
               !.interest = [f \in DOMAIN @ \cup {fd} |->
                               IF f = fd THEN {"EPOLLIN", "EPOLLRDHUP"}
                               ELSE @[f]],
               !.clients = [f \in DOMAIN @ \cup {fd} |->
                              IF f = fd THEN ConnectedClient(fd, "RECEIVING")
                              ELSE @[f]],
               !.ops = @ \o <<Op("set_non_blocking", fd, st.clients),
                              Op("epoll_ctl", fd, st.clients),
                              Op("insert", fd, st.clients)>>]

\* if ((events[n].events & EPOLLRDHUP) != 0)
hangup_branch(e) == "EPOLLRDHUP" \in e.events

input_branch_no_else(e) == "EPOLLIN" \in e.events

\* else if ((events[n].events & EPOLLIN) != 0) (mutant above: a plain if)
input_branch(e) == ~hangup_branch(e) /\ "EPOLLIN" \in e.events

\* if ((events[n].events & EPOLLOUT) != 0)
output_branch(e) == "EPOLLOUT" \in e.events

\* the body of the output branch: a comment and nothing else
output_todo(st, fd) == st

\* the body of the for loop for event e
loop_body(st, e, acc, req) ==
    LET s1 == IF hangup_branch(e)
              THEN LET c == handle_close([st EXCEPT !.clients = at(@, e.fd)], e.fd)
                   IN [c EXCEPT !.clients = erase(@, e.fd),
                                !.ops = Append(@, Op("erase", e.fd, c.clients))]
              ELSE st
        s2 == IF input_branch(e)
              THEN IF e.fd = server_socket
                   THEN setup_new_client(s1, acc)
                   ELSE handle_input([s1 EXCEPT !.clients = at(@, e.fd)], e.fd, req)
              ELSE s1
        s3 == IF s2.running /\ output_branch(e) THEN output_todo(s2, e.fd) ELSE s2
    IN s3

\* the events one epoll_wait may report: for a descriptor of the interest
\* list, some of the conditions asked for; for the listening socket only
\* while a connection waits
ReadyEvents ==
    {e \in [fd : DOMAIN interest, events : SUBSET Flags] :
        /\ e.events # {}
        /\ e.events \subseteq interest[e.fd]
        /\ e.fd = server_socket => pending > 0}

Batches ==
    UNION {{b \in [1..k -> ReadyEvents] :
              \A i, j \in 1..k : i # j => b[i].fd # b[j].fd} : k \in 1..MaxBatch}

\* epoll_wait returns a batch of events
EpollWait ==
    /\ running
    /\ pc = "epoll_wait"
    /\ \E b \in Batches :
         /\ events' = b
         /\ n' = 0
         /\ pc' = "for"
    /\ UNCHANGED <<source, running, CHUNK_SIZE, clients, interest, pending, handled,
                   ops, call, hist, wire>>

\* epoll_wait returns -1: perror and exit
EpollWaitFails ==
    /\ running
    /\ pc = "epoll_wait"
    /\ running' = FALSE
    /\ UNCHANGED <<source, CHUNK_SIZE, clients, interest, pc, events, n, pending,
                   handled, ops, call, hist, wire>>

\* one turn of the for loop: events[n] handled to its end, n++
HandleEvent ==
    /\ running
    /\ pc = "for"
    /\ n < Len(events)
    /\ LET e == events[n + 1]
           st == [running |-> TRUE, clients |-> clients, interest |-> interest,
                  pending |-> pending, ops |-> <<>>]
       IN \E acc \in (IF input_branch(e) /\ e.fd = server_socket
                      THEN AcceptResults ELSE {NoAccept}),
             req \in (IF input_branch(e) /\ e.fd # server_socket
                      THEN Requests ELSE {NoRequest}) :
            LET s == loop_body(st, e, acc, req)
            IN /\ running' = s.running
               /\ clients' = s.clients
               /\ interest' = s.interest
               /\ pending' = s.pending
               /\ ops' = s.ops
    /\ handled' = events[n + 1]
    /\ n' = n + 1
    /\ UNCHANGED <<source, CHUNK_SIZE, pc, events, call, hist, wire>>

\* n < num_events fails: the for loop ends, the events array goes out of
\* scope and the while loop comes round to epoll_wait
LoopEnd ==
    /\ running
    /\ pc = "for"
    /\ n = Len(events)
    /\ pc' = "epoll_wait"
    /\ events' = <<>>
    /\ n' = 0
    /\ handled' = NoEvent
    /\ ops' = <<>>
    /\ UNCHANGED <<source, running, CHUNK_SIZE, clients, interest, pending, call, hist,
                   wire>>

\* a peer connects: one more connection waits to be accepted
Connect ==
    /\ running
    /\ pending < MaxPending
    /\ pending' = pending + 1
    /\ UNCHANGED <<source, running, CHUNK_SIZE, clients, interest, pc, events, n,
                   handled, ops, call, hist, wire>>

\* main: the listening socket alone in the interest list, then event_loop
\* with an empty map
Init ==
    /\ running = TRUE
    /\ CHUNK_SIZE = MaxChunk
    /\ clients = <<>>
    /\ interest = (server_socket :> {"EPOLLIN"})
    /\ pc = "epoll_wait"
    /\ events = <<>>
    /\ n = 0
    /\ pending = 0
    /\ handled = NoEvent
    /\ ops = <<>>
    /\ call = NoCall
    /\ hist = <<>>
    /\ wire = <<>>
    /\ source = NoSource

Next == EpollWait \/ EpollWaitFails \/ HandleEvent \/ LoopEnd \/ Connect

Spec == Init /\ [][Next]_vars

\* the event loop handed, now and then, a hangup for a client descriptor
\* that is not (or no longer) in the interest list nor in the map
StrayEvents ==
    {[fd |-> f, events |-> {"EPOLLRDHUP"}] : f \in ClientFds \ DOMAIN interest}

EpollWaitStray ==
    /\ running
    /\ pc = "epoll_wait"
    /\ \E e \in StrayEvents :
         /\ events' = <<e>>
         /\ n' = 0
         /\ pc' = "for"
    /\ UNCHANGED <<source, running, CHUNK_SIZE, clients, interest, pending, handled,
                   ops, call, hist, wire>>

NextClose == Next \/ EpollWaitStray

SpecClose == Init /\ [][NextClose]_vars

(***************************************************************************)
(* Claims about the sender.                                                *)
(***************************************************************************)
Ceil(a, b) == (a + b - 1) \div b

sender_of(fd) == clients[fd].sender[1]

Fatal(out) == out.num_bytes_sent < 0 /\ out.errno # "EAGAIN"

RECURSIVE FullRun(_, _)
\* the sizes send_next_chunk offers, call after call, to a transport that
\* takes every chunk whole
FullRun(s, limit) ==
    LET k == bytes_in_chunk(s, limit)
        r == send_next_chunk(s, limit, [num_bytes_sent |-> k, errno |-> "none"])
    IN IF r.wrote THEN <<Len(r.offered)>> \o FullRun(r.sender, limit) ELSE <<>>

Run10000 == FullRun(ArraySender([i \in 1..10000 |-> 0], 10000), 4096)

\* C1: while the transport has taken every offered chunk whole, a sender of
\* P bytes under chunk limit C has made ceil(cursor/C) writes, each of
\* min(remaining, C) >= 1 bytes, the returned counts sum to the cursor, and
\* so at cursor = P it has made ceil(P/C) writes that sum to P (and the sum
\* is P only then); 10000 bytes under a limit of 4096 go out as 4096, 4096,
\* 1808.
C1_FullAcceptance ==
    /\ Run10000 = <<4096, 4096, 1808>>
    /\ \A fd \in DOMAIN clients :
         LET s == sender_of(fd)
             h == hist[fd]
             P == s.array_length
         IN h.allfull =>
              /\ h.total = s.curr_loc
              /\ h.writes = Ceil(s.curr_loc, CHUNK_SIZE)
              /\ s.curr_loc = min(h.writes * CHUNK_SIZE, P)
              /\ (s.curr_loc = P => h.writes = Ceil(P, CHUNK_SIZE) /\ h.total = P)
              /\ (h.total = P => s.curr_loc = P)
              /\ (call.made /\ call.fd = fd /\ call.wrote =>
                    /\ Len(call.offered) = min(P - call.loc, CHUNK_SIZE)
                    /\ Len(call.offered) >= 1
                    /\ call.ret = Len(call.offered))

\* a payload that needs several chunks, the last one short, sent whole
C1_Witness ==
    \E fd \in DOMAIN clients :
        /\ hist[fd].allfull
        /\ hist[fd].writes >= 2
        /\ sender_of(fd).curr_loc = sender_of(fd).array_length
        /\ call.made /\ call.wrote
        /\ Len(call.offered) < CHUNK_SIZE

\* C2: a call whose write took K > 0 bytes returned K and left the cursor
\* exactly K past where the write started; the write offered the payload's
\* bytes from its starting offset on, and what the transport has taken so
\* far is the payload up to the cursor: no byte sent twice, none skipped.
C2_PartialAcceptance ==
    (call.made /\ call.out.num_bytes_sent > 0) =>
        LET s == sender_of(call.fd)
            K == call.out.num_bytes_sent
        IN /\ call.returned /\ running
           /\ call.ret = K
           /\ K <= Len(call.offered)
           /\ s.curr_loc = call.loc + K
           /\ call.offered =
                SubSeq(s.array, call.loc + 1, call.loc + Len(call.offered))
           /\ wire[call.fd] = SubSeq(s.array, 1, s.curr_loc)

\* a write that took fewer bytes than it was offered
C2_Witness ==
    /\ call.made
    /\ call.out.num_bytes_sent > 0
    /\ call.out.num_bytes_sent < Len(call.offered)
    /\ sender_of(call.fd).curr_loc < sender_of(call.fd).array_length

C3_State ==
    (call.made /\ call.wrote /\ call.out.num_bytes_sent < 0
               /\ call.out.errno = "EAGAIN") =>
        /\ call.returned /\ running
        /\ call.ret = -1
        /\ sender_of(call.fd).curr_loc = call.loc
        /\ Len(wire[call.fd]) = call.loc

C3_Step ==
    (/\ call.made /\ call.out.num_bytes_sent < 0 /\ call.out.errno = "EAGAIN"
     /\ hist' # hist
     /\ call'.fd = call.fd
     /\ call'.out.num_bytes_sent > 0) =>
        /\ call'.loc = call.loc
        /\ call'.offered = call.offered

\* C3: a call whose write met would-block returned -1 and left the cursor
\* and the bytes taken so far as they were; the next call on that sender,
\* if its write succeeds, offers the same bytes from the same offset.
C3_WouldBlock == []C3_State /\ [][C3_Step]_vars

\* a write that succeeded after a blocked one, the cursor moved at last
C3_Witness ==
    /\ call.made
    /\ call.out.num_bytes_sent > 0
    /\ hist[call.fd].writes >= 2
    /\ hist[call.fd].total = call.ret
    /\ call.loc = 0

\* C4 (as claimed): a write that fails with an error other than would-block
\* makes send_next_chunk return to its caller, the process still running.
C4_FatalReturned ==
    (call.made /\ call.wrote /\ Fatal(call.out)) => (call.returned /\ running)

\* C5 (as claimed): a fatal transport error on one connection leaves the
\* process running and every other connection's entry as it was.
C5_Contained ==
    [][(call'.made /\ call'.wrote /\ Fatal(call'.out) /\ hist' # hist) =>
          /\ running'
          /\ \A fd \in DOMAIN clients \ {call'.fd} :
                fd \in DOMAIN clients' /\ clients'[fd] = clients[fd]]_vars

C9_Step ==
    \A fd \in DOMAIN clients :
        (sender_of(fd).curr_loc = sender_of(fd).array_length
         /\ hist'[fd] # hist[fd]) =>
            /\ call'.fd = fd
            /\ call'.returned /\ running'
            /\ call'.ret = 0
            /\ ~call'.wrote
            /\ clients' = clients
            /\ wire' = wire
            /\ hist'[fd].writes = hist[fd].writes

\* C9: a call on a sender whose cursor is at the end (a sender of no bytes
\* included) returns 0, makes no write, and changes neither the cursor nor
\* the payload, each time it is made.
C9_Exhausted == [][C9_Step]_vars

\* two calls made after the end was reached, one of them on an empty payload
C9_Witness ==
    \E fd \in DOMAIN clients :
        /\ sender_of(fd).curr_loc = sender_of(fd).array_length
        /\ call.made /\ call.fd = fd /\ call.ret = 0 /\ ~call.wrote
        /\ hist[fd].calls >= hist[fd].writes + 2

(***************************************************************************)
(* Claims about the event loop.                                            *)
(***************************************************************************)

\* the step is one turn of the for loop
Handles == pc = "for" /\ running /\ n < Len(events) /\ n' = n + 1

\* the event that turn handles
ev == events[n + 1]

Logged(log, name, fd) == \E i \in DOMAIN log : log[i].op = name /\ log[i].fd = fd

\* C6 (as claimed): the turn of the loop that handles a write-ready event
\* for a client in SENDING mode, bytes still unsent, calls send_next_chunk
\* on its sender.
C6_DrainOnWriteReady ==
    [][(/\ Handles
        /\ "EPOLLOUT" \in ev.events
        /\ "EPOLLRDHUP" \notin ev.events
        /\ ev.fd \in DOMAIN clients
        /\ clients[ev.fd].state = "SENDING"
        /\ num_bytes_remaining(sender_of(ev.fd)) > 0) =>
          Logged(ops', "send_next_chunk", ev.fd)]_vars

C7_Step ==
    (Handles /\ "EPOLLRDHUP" \in ev.events /\ ev.fd \in DOMAIN clients) =>
        /\ running'
        /\ DOMAIN clients' = DOMAIN clients \ {ev.fd}
        /\ \A f \in DOMAIN clients' : clients'[f] = clients[f]
        /\ DOMAIN interest' = DOMAIN interest \ {ev.fd}
        /\ ~Logged(ops', "send_next_chunk", ev.fd)
        /\ ~Logged(ops', "handle_input", ev.fd)
        /\ call' = call /\ wire' = wire

\* C7: the turn of the loop that handles an event with the hangup flag for
\* a client of the table, whatever its mode and however many bytes it has
\* left to send, leaves that descriptor out of the table (its sender with
\* it) and out of the interest list, sends nothing, and changes no other
\* entry.
C7_HangupCloses == [][C7_Step]_vars

\* a hangup just handled for a client that was SENDING with bytes left
C7_Witness ==
    /\ "EPOLLRDHUP" \in handled.events
    /\ handled.fd \notin DOMAIN clients
    /\ Len(ops) >= 1
    /\ ops[1].op = "handle_close"
    /\ ops[1].state = "SENDING"
    /\ ops[1].left > 0

C8_Step ==
    (Handles /\ "EPOLLRDHUP" \in ev.events /\ ev.fd \in DOMAIN clients) =>
        /\ Len(ops') = 2
        /\ ops'[1].op = "handle_close" /\ ops'[1].fd = ev.fd
        /\ ops'[2].op = "erase" /\ ops'[2].fd = ev.fd
        /\ ev.fd \notin DOMAIN clients'

C8_Log ==
    \A i, j \in DOMAIN ops :
        (i < j /\ ops[i].op = "erase") => ops[j].fd # ops[i].fd

\* C8: for an event that carries the hangup flag, alone or with the
\* read-ready and write-ready flags, the loop calls handle_close and erases
\* the entry and calls nothing else; in no turn of the loop is anything
\* called on a descriptor after its entry was erased.
C8_HangupFirst == []C8_Log /\ [][C8_Step]_vars

\* an event with all three flags just handled
C8_Witness ==
    /\ handled.events = {"EPOLLRDHUP", "EPOLLIN", "EPOLLOUT"}
    /\ handled.fd \notin DOMAIN clients
    /\ Len(ops) = 2
    /\ ops[2].op = "erase"

C10_Step ==
    (Handles /\ ev.fd = server_socket /\ "EPOLLIN" \in ev.events) =>
        LET fd == ops'[1].fd
        IN /\ Len(ops') >= 1 /\ ops'[1].op = "accept"
           /\ running' =>
                /\ fd \notin DOMAIN clients
                /\ DOMAIN clients' = DOMAIN clients \cup {fd}
                /\ clients'[fd] =
                     [client_fd |-> fd, state |-> "RECEIVING", sender |-> <<>>]
                /\ \A f \in DOMAIN clients : clients'[f] = clients[f]
           /\ fd \in DOMAIN clients =>
                /\ ~running'
                /\ clients' = clients
                /\ interest' = interest

\* C10: the turn of the loop that accepts a connection and goes on running
\* has added one entry for the new descriptor, in RECEIVING mode and with
\* no sender, and changed no other; when the accepted descriptor is already
\* in the table the process exits and the table is as it was.
C10_Register == [][C10_Step]_vars

\* the process has exited on a descriptor already mapped to a client that
\* is SENDING, beside a client registered before and still RECEIVING
C10_Witness ==
    /\ ~running
    /\ Len(ops) = 2
    /\ ops[1].op = "accept" /\ ops[2].op = "exit"
    /\ ops[1].fd \in DOMAIN clients
    /\ clients[ops[1].fd].state = "SENDING"
    /\ \E f \in DOMAIN clients :
         clients[f].state = "RECEIVING" /\ clients[f].sender = <<>>

C11_Step ==
    (Handles /\ "EPOLLRDHUP" \in ev.events /\ ev.fd \notin DOMAIN clients) =>
        /\ running'
        /\ clients' = clients
        /\ interest' = interest
        /\ pending' = pending

\* C11: the turn of the loop that handles a hangup for a descriptor that is
\* not in the table (never registered, or closed before) leaves the table
\* and the interest list exactly as they were, and the process running.
C11_CloseIdempotent == [][C11_Step]_vars

\* a hangup just handled for a descriptor that had no entry, a registered
\* client being in the table meanwhile
C11_Witness ==
    /\ "EPOLLRDHUP" \in handled.events
    /\ Len(ops) = 2
    /\ ops[1].op = "handle_close"
    /\ ops[1].client_fd # ops[1].fd
    /\ ops[2].op = "erase"
    /\ running
    /\ \E f \in DOMAIN clients : f # handled.fd /\ clients[f].state = "SENDING"

\* C12: when the one write of a non-empty chunk is refused whole because
\* the socket's send buffer is full (send gives -1 with EAGAIN), the call
\* returns -1 to a process still running, the cursor stays where it was,
\* nothing went on the wire, and a new call would offer the same bytes again.
C12_ZeroAcceptance ==
    (/\ call.made /\ call.wrote
     /\ Len(call.offered) >= 1
     /\ call.out.num_bytes_sent < 0
     /\ call.out.errno = "EAGAIN") =>
        /\ running /\ call.returned
        /\ call.ret = -1
        /\ sender_of(call.fd).curr_loc = call.loc
        /\ hist[call.fd].total = call.loc
        /\ num_bytes_remaining(sender_of(call.fd)) >= 1
        /\ chunk(sender_of(call.fd), CHUNK_SIZE) = call.offered

\* a write refused whole in the middle of a payload
C12_Witness ==
    /\ call.made /\ call.wrote
    /\ call.out.num_bytes_sent < 0
    /\ call.out.errno = "EAGAIN"
    /\ call.ret = -1
    /\ call.loc > 0
    /\ Len(call.offered) >= 2

C13_State ==
    /\ server_socket \in DOMAIN interest
    /\ DOMAIN clients = DOMAIN interest \ {server_socket}
    /\ \A fd \in DOMAIN clients :
         /\ clients[fd].client_fd = fd
         /\ clients[fd].state \in {"RECEIVING", "SENDING"}

C13_Step ==
    /\ (DOMAIN clients' \ DOMAIN clients # {}) =>
          /\ Handles
          /\ ev.fd = server_socket /\ "EPOLLIN" \in ev.events
          /\ Cardinality(DOMAIN clients' \ DOMAIN clients) = 1
          /\ Logged(ops', "insert", CHOOSE fd \in DOMAIN clients' : fd \notin DOMAIN clients)
    /\ (DOMAIN clients \ DOMAIN clients' # {}) =>
          /\ Handles
          /\ "EPOLLRDHUP" \in ev.events
          /\ DOMAIN clients \ DOMAIN clients' = {ev.fd}

\* C13: in every state between two events the keys of the clients map are
\* exactly the client descriptors in the interest list, each with one entry
\* that carries its own descriptor; a key appears only in the turn that
\* accepts on the server socket, and disappears only in the turn that
\* handles a hangup for it.
C13_TableRegistration == []C13_State /\ [][C13_Step]_vars

\* two clients accepted, one of them asked for a song, then one hung up
C13_Witness ==
    /\ "EPOLLRDHUP" \in handled.events
    /\ handled.fd \notin DOMAIN clients
    /\ Cardinality(DOMAIN clients) = 1
    /\ \E fd \in DOMAIN clients : clients[fd].state = "SENDING"
    /\ DOMAIN interest = DOMAIN clients \cup {server_socket}

C14_State ==
    \A fd \in DOMAIN clients :
        LET s == sender_of(fd) IN
        /\ 0 <= s.curr_loc
        /\ s.curr_loc <= s.array_length
        /\ (bytes_in_chunk(s, CHUNK_SIZE) = 0) <=> (s.curr_loc = s.array_length)
        /\ (call.made /\ call.fd = fd) =>
              ((~call.wrote /\ call.ret = 0) <=> (call.loc = s.array_length))

C14_Step ==
    \A fd \in DOMAIN clients :
        clients'[fd].sender[1].curr_loc >= sender_of(fd).curr_loc

\* C14: whatever the calls and the transport's answers, the cursor of every
\* sender stays within 0..array_length, no step makes it smaller, and the
\* next chunk is empty (the call returns 0 without writing) exactly when
\* the cursor equals array_length.
C14_Cursor == []C14_State /\ [][C14_Step]_vars

\* a payload sent to the end through full, partial and refused writes
C14_Witness ==
    /\ call.made
    /\ ~call.wrote /\ call.ret = 0
    /\ sender_of(call.fd).curr_loc = sender_of(call.fd).array_length
    /\ sender_of(call.fd).array_length >= 3
    /\ ~hist[call.fd].allfull
    /\ hist[call.fd].writes >= 4

C15_Step ==
    (Handles /\ ev.fd = server_socket /\ "EPOLLIN" \in ev.events) =>
        LET fd == ops'[1].fd
        IN /\ pending' >= pending - 1
           /\ Cardinality(DOMAIN clients') <= Cardinality(DOMAIN clients) + 1
           /\ running' =>
                /\ pending' = pending - 1
                /\ Cardinality(DOMAIN clients') = Cardinality(DOMAIN clients) + 1
                /\ Len(ops') = 4
                /\ \A i \in 1..4 : ops'[i].fd = fd /\ ops'[i].state = "none"
                /\ ops'[1].op = "accept"
                /\ ops'[2].op = "set_non_blocking"
                /\ ops'[3].op = "epoll_ctl"
                /\ ops'[4].op = "insert"
                /\ fd \notin DOMAIN interest
                /\ interest'[fd] = {"EPOLLIN", "EPOLLRDHUP"}
                /\ \A f \in DOMAIN interest : interest'[f] = interest[f]

\* C15: the turn of the loop that handles EPOLLIN on the server socket
\* takes at most one connection off the queue, however many wait there;
\* when the process goes on running it took exactly one, the table has
\* exactly one entry more, and the new descriptor was made non-blocking and
\* added to the interest list for EPOLLIN and EPOLLRDHUP, in that order,
\* before its entry was inserted.
C15_AcceptOne == [][C15_Step]_vars

\* a connection accepted while another one is still waiting in the queue
C15_Witness ==
    /\ running
    /\ handled.fd = server_socket
    /\ Len(ops) = 4 /\ ops[4].op = "insert"
    /\ ops[4].fd \in DOMAIN clients
    /\ pending >= 1
    /\ Cardinality(DOMAIN clients) = 2

C16_Step ==
    (/\ running
     /\ \/ pc = "epoll_wait"
        \/ /\ Handles /\ ev.fd = server_socket
           /\ Len(ops') = 1 /\ ops'[1].op = "accept") =>
        running'

\* C16 (as claimed): neither a wait that fails (an interrupted epoll_wait)
\* nor a turn on the server socket whose accept fails ends the process: the
\* loop is still running after the step.
C16_LoopNeverExits == [][C16_Step]_vars

C17_State ==
    LET s == sender_of(TxFd) IN
    /\ s.array = source.given
    /\ s.array_length = Len(source.given)
    /\ wire[TxFd] = SubSeq(source.given, 1, s.curr_loc)
    /\ (call.made /\ call.wrote) =>
          call.offered = SubSeq(source.given, call.loc + 1,
                                call.loc + Len(call.offered))

C17_Step ==
    (source'.bytes # source.bytes) => (clients' = clients /\ wire' = wire)

\* C17: whatever the caller does to its buffer after the constructor has
\* run, the sender's array and array_length are those of the bytes it was
\* given, a change of the buffer changes nothing of the sender (cursor
\* included), and every chunk offered to send() and every byte on the wire
\* is a byte the buffer held when the constructor ran.
C17_PayloadOwned == []C17_State /\ [][C17_Step]_vars

\* the buffer was written over in the middle of the transmission, and the
\* bytes sent after that are not the ones the buffer holds now
C17_Witness ==
    /\ source.bytes # source.given
    /\ source.seen >= 1
    /\ hist[TxFd].writes > source.seen
    /\ call.made /\ call.wrote /\ call.ret > 0
    /\ call.offered # SubSeq(source.bytes, call.loc + 1,
                             call.loc + Len(call.offered))
    /\ wire[TxFd] = source.given

\* C18: in every state, for every sender, the bytes its transport has
\* accepted so far, in the order it accepted them, are the first curr_loc
\* bytes of the payload; so at curr_loc = array_length the transport has
\* taken the payload once, whole and in order.
C18_StreamPrefix ==
    \A fd \in DOMAIN clients :
        LET s == sender_of(fd) IN
        /\ Len(wire[fd]) = s.curr_loc
        /\ \A i \in 1..s.curr_loc : wire[fd][i] = s.array[i]
        /\ (s.curr_loc = s.array_length) => (wire[fd] = s.array)

\* a payload of unlike bytes taken whole, some write having been refused
\* on the way
C18_Witness ==
    LET s == sender_of(TxFd) IN
    /\ s.curr_loc = s.array_length
    /\ s.array_length >= 3
    /\ s.array[1] # s.array[2]
    /\ wire[TxFd] = s.array
    /\ hist[TxFd].writes > hist[TxFd].total

\* C19: every write send_next_chunk attempts offers at least 1 and at most
\* CHUNK_SIZE bytes, and no more than array_length - curr_loc of them: the
\* bytes copied lie within the payload and fit the chunk buffer.
C19_ChunkBound ==
    (call.made /\ call.wrote) =>
        LET s == sender_of(call.fd) IN
        /\ 1 <= Len(call.offered)
        /\ Len(call.offered) <= CHUNK_SIZE
        /\ Len(call.offered) <= s.array_length - call.loc
        /\ call.loc >= 0
        /\ call.loc + Len(call.offered) <= Len(s.array)

\* the short last chunk of a payload longer than CHUNK_SIZE, after a write
\* that was not taken whole
C19_Witness ==
    /\ call.made /\ call.wrote
    /\ call.loc >= CHUNK_SIZE
    /\ Len(call.offered) < CHUNK_SIZE
    /\ Len(call.offered) = sender_of(call.fd).array_length - call.loc
    /\ call.out.num_bytes_sent = Len(call.offered)
    /\ ~hist[call.fd].allfull

C20_Exhausted == sender_of(TxFd).curr_loc = sender_of(TxFd).array_length

C20_Step ==
    C20_Exhausted =>
        /\ C20_Exhausted'
        /\ running'
        /\ call'.made /\ ~call'.wrote /\ call'.ret = 0

\* C20: called again and again over a transport that again and again takes
\* at least one byte, the sender reaches curr_loc = array_length unless a
\* write fails for good (the process has then exited); and from
\* curr_loc = array_length on every call returns 0, without writing, and
\* leaves the cursor there.
C20_Progress == <>(~running \/ C20_Exhausted) /\ [][C20_Step]_vars

\* the call after the last byte of a long payload: it returned 0
C20_Witness ==
    /\ running
    /\ call.made /\ ~call.wrote /\ call.ret = 0
    /\ C20_Exhausted
    /\ sender_of(TxFd).array_length = MaxLen
    /\ CHUNK_SIZE < MaxLen
    /\ wire[TxFd] = sender_of(TxFd).array

====
